---- MODULE Spec2Model ----
(***************************************************************************)
(* Model of the TallerSIMD character-counting benchmark core:              *)
(*   - SerialCharacterCounter  (src/char_count_serial.cpp)                 *)
(*   - SIMDCharacterCounter    (src/char_count_simd.cpp)                   *)
(*   - RandomStringGenerator   (src/utils.cpp, src/utils.h)                *)
(*                                                                         *)
(* Bytes are C `char` values (signed, -128..127).  size_t arithmetic is    *)
(* modelled modulo 2^SizeBits.  A buffer of `length` bytes is a function   *)
(* on 0..length-1; its content region is 0..length-2 and index length-1    *)
(* holds the terminating sentinel.                                         *)
(***************************************************************************)
EXTENDS Integers, FiniteSets, Sequences, TLC

VARIABLES
    \* ---- the buffer handed to the counters
    str,            \* const char* str : [0..length-1 -> byte]
    length,         \* size_t length (sentinel included)
    target,         \* the target byte of this run (config.targetCharacter)
    calls,          \* counter calls made so far on this buffer
    \* ---- SIMDCharacterCounter::countCharacterOccurrences, one call in flight
    pc,             \* position of the counter code
    caller,         \* who invoked the kernel: "direct" or "all"
    char_x,         \* char char_x
    i,              \* size_t i
    total,          \* size_t total
    \* ---- SIMDCharacterCounter::countAllCharacters
    charCounts,     \* std::unordered_map<char,size_t> charCounts
    pending,        \* keys of charCounts the range-for has not visited yet
    \* ---- results handed back to the caller
    serialCounts,   \* table returned by SerialCharacterCounter::countAllCharacters
    serialCount,    \* value returned by SerialCharacterCounter::countCharacter
    simdCounts,     \* table returned by SIMDCharacterCounter::countAllCharacters
    simdCount,      \* value returned by the vector kernel
    \* ---- observation of the kernel call in flight
    blocks,         \* iterations of the 16-byte block loop
    rems,           \* iterations of the remainder loop
    seen,           \* [content index -> number of times it was examined]
    loads,          \* offsets at which a 16-byte load was issued
    \* ---- RandomStringGenerator and the heap under it
    heapBase,         \* lowest address of the heap
    heap,             \* live malloc blocks: [raw address -> size]
    allocs,           \* generateAlignedString calls that returned a buffer
    heapErr,          \* free() was handed an address that is no live block
    originalPointers, \* std::unordered_map<void*, void*> originalPointers
    mem,              \* contents of the live buffers: [aligned -> [0..L-1 -> byte]]
    rng,              \* std::mt19937 rng (engine state)
    seed,             \* uint32_t seed
    lastOp,           \* the last RandomStringGenerator call and its outcome
    \* ---- two RandomStringGenerator objects filling buffers side by side
    fseed,            \* the seed both generators were constructed with
    flen,             \* the length every buffer is requested with
    frng,             \* [generator -> engine state]
    flog,             \* [generator -> sequence of its calls and their buffers]
    \* ---- one call of validateResults(serialCount, simdCount, str, length, _)
    vserial,          \* size_t serialCount
    vsimd,            \* size_t simdCount
    vpc,              \* "idle", "returned" or "fault"
    vret,             \* the bool handed back, if any
    vdiag,            \* the mismatch diagnostic went to std::cerr
    vreads,           \* indices of str read for the excerpt
    \* ---- one benchmark run, from main to the release of the buffer
    bdriver,          \* the driver that runs
    bvector,          \* the counter it drives is the vector counter
    hostVector,       \* the host executes the vector instructions of the kernel
    breps,            \* config.repetitions
    bpc,              \* position of the driver
    bi,               \* loop counter of the warm-up / repetition loop
    btimes,           \* executionTimes: the trace position of each timed call
    btrace,           \* calls and reports the run has made, in order
    \* ---- main of the vector program, from the configuration to its exit
    config,           \* the TestConfiguration handed to validateConfiguration
    mpc,              \* position of main
    merror,           \* what() of the exception validateConfiguration threw
    mwarned,          \* the target character warning went to std::cout
    mallocated        \* the run asked the generator for its buffer

cvars == <<str, length, target, calls, pc, caller, char_x, i, total, charCounts, pending,
           serialCounts, serialCount, simdCounts, simdCount,
           blocks, rems, seen, loads>>

avars == <<heapBase, heap, allocs, heapErr, originalPointers, mem, rng, seed, lastOp>>

fvars == <<fseed, flen, frng, flog>>

vvars == <<vserial, vsimd, vpc, vret, vdiag, vreads>>

bvars == <<bdriver, bvector, hostVector, breps, bpc, bi, btimes, btrace>>

gvars == <<config, mpc, merror, mwarned, mallocated>>

vars == <<cvars, avars, fvars, vvars, bvars, gvars>>

----------------------------------------------------------------------------
(* Bounds of the model *)

\* width of size_t in the model (the build has 64)
SizeBits == 12

\* width of int in bits (the build has 32, narrower than size_t)
IntBits == 8

\* largest buffer length (sentinel included) handed to the counters
MaxLen == 34

\* counter calls made on one buffer
MaxCalls == 2

\* bytes past the end of the buffer that a wild load may still find mapped
MaxWild == 32

----------------------------------------------------------------------------
(* Program constants *)

\* width of one __m128i block in bytes
VecWidth == 16

RECURSIVE Pow2(_)
Pow2(k) == IF k = 0 THEN 1 ELSE 2 * Pow2(k - 1)

SizeMod == Pow2(SizeBits)

\* size_t arithmetic
USub(a, b) == (a - b) % SizeMod
UAdd(a, b) == (a + b) % SizeMod

\* a result variable holds {} before the first return, then {value}
None == {}

EmptyMap == [k \in {} |-> 0]

----------------------------------------------------------------------------
(* Buffers the counters are run on *)

\* byte values appearing in buffers: 'a', a UTF-8 continuation byte, NUL
CharA == 97
ContByte == -65
Nul == 0

\* target bytes the counters are asked for ('c' occurs in no buffer)
Targets == {CharA, ContByte, Nul, 99}

\* A buffer of len bytes: 'a' at index h, NUL at every index = 3 mod 7,
\* a continuation byte elsewhere, and the sentinel at len-1.
MakeBuffer(len, h) ==
    [k \in 0..(len - 1) |->
        IF k = len - 1 THEN Nul
        ELSE IF k = h THEN CharA
        ELSE IF k % 7 = 3 THEN Nul
        ELSE ContByte]

\* indices at which the single 'a' is placed: the ends of the content region
\* and both sides of every block boundary (len-1 = no 'a' at all)
HotIndices(len) ==
    {h \in 0..(len - 1) :
        \/ h \in {0, 1, len - 3, len - 2, len - 1}
        \/ h % VecWidth \in {0, 1, VecWidth - 1}}

----------------------------------------------------------------------------
(* SerialCharacterCounter *)

\* charCounts[c]++ on an unordered_map: a missing key is created at 0 first
MapIncr(m, c) ==
    [k \in (DOMAIN m) \cup {c} |->
        IF k = c THEN (IF c \in DOMAIN m THEN UAdd(m[c], 1) ELSE 1)
        ELSE m[k]]

\* allCounts[target] on an unordered_map: a missing key reads as 0
MapGet(m, c) == IF c \in DOMAIN m THEN m[c] ELSE 0

RECURSIVE SerialLoop(_, _, _, _)
SerialLoop(s, bound, k, counts) ==
    IF k < bound
    THEN SerialLoop(s, bound, k + 1, MapIncr(counts, s[k]))
    ELSE counts

\* for (size_t i = 0; i < length - 1; ++i) charCounts[str[i]]++;
SerialCountAllCharacters(s, len) == SerialLoop(s, USub(len, 1), 0, EmptyMap)

\* countCharacter: allCounts[target] of the full table
SerialCountCharacterOf(s, len, c) ==
    MapGet(SerialCountAllCharacters(s, len), c)

----------------------------------------------------------------------------
(* SIMDCharacterCounter *)

\* a pre-pass that also enters a byte the content does not hold
FindUniqueCharacters_WithAbsent(s, n) ==
    [c \in {s[k] : k \in 0..(n - 1)} \cup {99} |-> 0]

\* findUniqueCharacters: charCounts[str[i]] = 0 for i < length
FindUniqueCharacters(s, n) == [c \in {s[k] : k \in 0..(n - 1)} |-> 0]

\* _mm_cmpeq_epi8 + _mm_movemask_epi8: bit j set iff lane j equals the target
RECURSIVE MoveMask(_, _, _, _)
MoveMask(s, base, lanes, c) ==
    IF lanes = {} THEN 0
    ELSE LET j == CHOOSE x \in lanes : TRUE
         IN (IF s[base + j] = c THEN Pow2(j) ELSE 0)
            + MoveMask(s, base, lanes \ {j}, c)

\* _mm_popcnt_u32
RECURSIVE PopCount(_)
PopCount(m) == IF m = 0 THEN 0 ELSE (m % 2) + PopCount(m \div 2)

\* the loop bound `length - 16` of the block loop, in size_t
BlockBound(n) == USub(n, VecWidth)

\* content length the kernel is called with: length - 1
ContentLen == USub(length, 1)

----------------------------------------------------------------------------
(* Counter actions *)

NoSeen == [k \in {} |-> 0]

\* entry of countCharacterOccurrences(str, length - 1, c)
KernelEnter(c, who) ==
    /\ char_x' = c
    /\ caller' = who
    /\ i' = 0
    /\ total' = 0
    /\ blocks' = 0
    /\ rems' = 0
    /\ seen' = [k \in 0..(ContentLen - 1) |-> 0]
    /\ loads' = {}
    /\ pc' = "block"

\* SerialCharacterCounter::countAllCharacters(str, length, metrics)
SerialCountAll ==
    /\ pc = "idle"
    /\ calls < MaxCalls
    /\ calls' = calls + 1
    /\ serialCounts' = {SerialCountAllCharacters(str, length)}
    /\ UNCHANGED <<str, length, target, pc, caller, char_x, i, total, charCounts,
                   pending, serialCount, simdCounts, simdCount,
                   blocks, rems, seen, loads>>
    /\ UNCHANGED <<avars, fvars, vvars, bvars, gvars>>

\* SerialCharacterCounter::countCharacter(str, length, target, metrics)
SerialCountCharacter ==
    /\ pc = "idle"
    /\ calls < MaxCalls
    /\ calls' = calls + 1
    /\ serialCount' = {SerialCountCharacterOf(str, length, target)}
    /\ UNCHANGED <<str, length, target, pc, caller, char_x, i, total, charCounts,
                   pending, serialCounts, simdCounts, simdCount,
                   blocks, rems, seen, loads>>
    /\ UNCHANGED <<avars, fvars, vvars, bvars, gvars>>

\* a direct call of the vector kernel countCharacterOccurrences(str, length-1, target)
KernelCall ==
    /\ pc = "idle"
    /\ calls < MaxCalls
    /\ calls' = calls + 1
    /\ KernelEnter(target, "direct")
    /\ UNCHANGED <<str, length, target, charCounts, pending, serialCounts,
                   serialCount, simdCounts, simdCount>>
    /\ UNCHANGED <<avars, fvars, vvars, bvars, gvars>>

\* SIMDCharacterCounter::countAllCharacters: the distinct-byte pre-pass
SimdCountAllBegin ==
    /\ pc = "idle"
    /\ calls < MaxCalls
    /\ calls' = calls + 1
    /\ charCounts' = FindUniqueCharacters(str, ContentLen)
    /\ pending' = DOMAIN charCounts'
    /\ pc' = "all"
    /\ UNCHANGED <<str, length, target, caller, char_x, i, total, serialCounts,
                   serialCount, simdCounts, simdCount, blocks, rems, seen, loads>>
    /\ UNCHANGED <<avars, fvars, vvars, bvars, gvars>>

\* for (auto& pair : charCounts) pair.second = countCharacterOccurrences(...)
\* (the iteration order of an unordered_map is unspecified)
SimdCountAllNext ==
    /\ pc = "all"
    /\ \E c \in pending : KernelEnter(c, "all")
    /\ UNCHANGED <<str, length, target, calls, charCounts, pending, serialCounts,
                   serialCount, simdCounts, simdCount>>
    /\ UNCHANGED <<avars, fvars, vvars, bvars, gvars>>

\* return charCounts
SimdCountAllReturn ==
    /\ pc = "all"
    /\ pending = {}
    /\ simdCounts' = {charCounts}
    /\ pc' = "idle"
    /\ UNCHANGED <<str, length, target, calls, caller, char_x, i, total, charCounts, pending,
                   serialCounts, serialCount, simdCount, blocks, rems, seen, loads>>
    /\ UNCHANGED <<avars, fvars, vvars, bvars, gvars>>

\* lanes of the load at offset i that lie inside the buffer object
InBufferLanes == {j \in 0..(VecWidth - 1) : i + j < length}

\* one iteration of  for (; i <= length - 16; i += 16)
\* A load reaching past the end of the buffer object is undefined behaviour:
\* it faults, or it reads whatever the bytes past the buffer hold.
BlockIter ==
    /\ pc = "block"
    /\ i <= BlockBound(ContentLen)
    /\ LET wild == VecWidth - Cardinality(InBufferLanes)
           hits == PopCount(MoveMask(str, i, InBufferLanes, char_x))
       IN \/ /\ wild = 0
             /\ total' = UAdd(total, hits)
             /\ i' = UAdd(i, VecWidth)
             /\ pc' = "block"
          \/ /\ wild > 0
             /\ i + VecWidth <= length + MaxWild
             /\ \E garbage \in 0..wild : total' = UAdd(total, hits + garbage)
             /\ i' = UAdd(i, VecWidth)
             /\ pc' = "block"
          \/ /\ wild > 0
             /\ pc' = "fault"
             /\ UNCHANGED <<i, total>>
    /\ blocks' = blocks + 1
    /\ loads' = loads \cup {i}
    /\ seen' = [k \in DOMAIN seen |->
                  IF k >= i /\ k < i + VecWidth THEN seen[k] + 1 ELSE seen[k]]
    /\ UNCHANGED <<str, length, target, calls, caller, char_x, charCounts, pending,
                   serialCounts, serialCount, simdCounts, simdCount, rems>>
    /\ UNCHANGED <<avars, fvars, vvars, bvars, gvars>>

\* the block loop's condition fails: fall through to the remainder loop
BlockExit ==
    /\ pc = "block"
    /\ ~(i <= BlockBound(ContentLen))
    /\ pc' = "rem"
    /\ UNCHANGED <<str, length, target, calls, caller, char_x, i, total, charCounts, pending,
                   serialCounts, serialCount, simdCounts, simdCount,
                   blocks, rems, seen, loads>>
    /\ UNCHANGED <<avars, fvars, vvars, bvars, gvars>>

\* one iteration of  for (; i < length; ++i) if (str[i] == char_x) ++total;
RemIter ==
    /\ pc = "rem"
    /\ i < ContentLen
    /\ total' = IF str[i] = char_x THEN UAdd(total, 1) ELSE total
    /\ i' = UAdd(i, 1)
    /\ rems' = rems + 1
    /\ seen' = [seen EXCEPT ![i] = @ + 1]
    /\ UNCHANGED <<str, length, target, calls, pc, caller, char_x, charCounts, pending,
                   serialCounts, serialCount, simdCounts, simdCount,
                   blocks, loads>>
    /\ UNCHANGED <<avars, fvars, vvars, bvars, gvars>>

\* return total
KernelReturn ==
    /\ pc = "rem"
    /\ ~(i < ContentLen)
    /\ \/ /\ caller = "direct"
          /\ simdCount' = {total}
          /\ pc' = "idle"
          /\ UNCHANGED <<charCounts, pending>>
       \/ /\ caller = "all"
          /\ charCounts' = [charCounts EXCEPT ![char_x] = total]
          /\ pending' = pending \ {char_x}
          /\ pc' = "all"
          /\ UNCHANGED simdCount
    /\ UNCHANGED <<str, length, target, calls, caller, char_x, i, total, serialCounts,
                   serialCount, simdCounts, blocks, rems, seen, loads>>
    /\ UNCHANGED <<avars, fvars, vvars, bvars, gvars>>

----------------------------------------------------------------------------
(* State of the counters between calls *)

CountIdle ==
    /\ pc = "idle"
    /\ caller = "none"
    /\ char_x = 0
    /\ i = 0
    /\ total = 0
    /\ charCounts = EmptyMap
    /\ pending = {}
    /\ serialCounts = None
    /\ serialCount = None
    /\ simdCounts = None
    /\ simdCount = None
    /\ blocks = 0
    /\ rems = 0
    /\ seen = NoSeen
    /\ loads = {}

----------------------------------------------------------------------------
(* RandomStringGenerator: helpers *)

\* value & mask on size_t
RECURSIVE BitAnd(_, _)
BitAnd(a, b) ==
    IF a = 0 \/ b = 0 THEN 0
    ELSE (a % 2) * (b % 2) + 2 * BitAnd(a \div 2, b \div 2)

\* isPowerOfTwo without the `value > 0` test
isPowerOfTwo_NoZeroTest(value) == BitAnd(value, USub(value, 1)) = 0

\* return value > 0 && (value & (value - 1)) == 0;
isPowerOfTwo(value) == value > 0 /\ BitAnd(value, USub(value, 1)) = 0

\* the null pointer
Null == 0

\* align that hands back the raw pointer without rounding it up
align_NoRounding(alignment, size, ptr, space) ==
    IF space < size THEN Null ELSE ptr

\* std::align(alignment, size, ptr, space): the first address >= ptr that is
\* a multiple of alignment, or null when size bytes do not fit behind it in
\* the space bytes starting at ptr
align(alignment, size, ptr, space) ==
    IF space < size THEN Null
    ELSE LET aligned == BitAnd(UAdd(USub(ptr, 1), alignment), USub(0, alignment))
             diff == USub(aligned, ptr)
         IN IF diff > space - size THEN Null ELSE aligned

\* byte of freshly malloc'ed memory nobody has written yet
Uninit == 999

\* static_cast<char>(v) of an int in 0..255 (char is signed)
ToChar(v) == IF v >= 128 THEN v - 256 ELSE v

\* number of states of the random engine in the model
RngStates == 32

\* rng(seed) / rng.seed(seed): the engine state is a function of the seed only
RngSeed(sd) == sd % RngStates

\* one step of the engine (a full-period congruential generator)
RngNext(x) == (5 * x + 3) % RngStates

\* std::uniform_int_distribution<int>(lo, hi) applied to the engine state x
\* reached by the step: a value in lo..hi that is a function of x only
Dist(lo, hi, x) == lo + ((37 * x) % (hi - lo + 1))

\* dist1(0x20, 0x7E), dist2(0xC2, 0xF4)
Dist1(x) == Dist(32, 126, x)
Dist2(x) == Dist(194, 244, x)

\* a continuation byte computed without the % 0x40
ContinuationByte_NoMod(d) == ToChar(128 + d)

\* static_cast<char>(0x80 + (dist1(rng) % 0x40))
ContinuationByte(d) == ToChar(128 + (d % 64))

\* the continuation bytes of one multi-byte sequence:
\* for (j = 1; j < charSize; j++) buffer[i++] = 0x80 + (dist1(rng) % 0x40)
RECURSIVE WriteCont(_, _, _, _)
WriteCont(buf, k, left, x) ==
    IF left = 0 THEN [buf |-> buf, k |-> k, rng |-> x]
    ELSE LET x1 == RngNext(x)
         IN WriteCont([buf EXCEPT ![k] = ContinuationByte(Dist1(x1))],
                      UAdd(k, 1), left - 1, x1)

\* the loop of generateRandomUTF8, from index k with engine state x
RECURSIVE FillLoop(_, _, _, _)
FillLoop(buf, len, k, x) ==
    IF ~(k < USub(len, 1)) THEN [buf |-> buf, rng |-> x]
    ELSE LET x1 == RngNext(x)
         IN IF Dist1(x1) % 4 = 0
            THEN LET x2 == RngNext(x1)
                     lead == Dist2(x2)
                     charSize == IF lead < 224 THEN 2
                                 ELSE IF lead < 240 THEN 3 ELSE 4
                 IN IF UAdd(k, charSize) >= USub(len, 1)
                    THEN [buf |-> buf, rng |-> x2]
                    ELSE LET w == WriteCont([buf EXCEPT ![k] = ToChar(lead)],
                                            UAdd(k, 1), charSize - 1, x2)
                         IN FillLoop(w.buf, len, w.k, w.rng)
            ELSE LET x2 == RngNext(x1)
                 IN FillLoop([buf EXCEPT ![k] = ToChar(Dist1(x2))],
                             len, UAdd(k, 1), x2)

\* a filler that leaves the last byte of the buffer as it found it
generateRandomUTF8_NoSentinel(buffer, len, x) == FillLoop(buffer, len, 0, x)

\* generateRandomUTF8(buffer, length) with engine state x; buffer holds what
\* the memory held before the call
generateRandomUTF8(buffer, len, x) ==
    LET f == FillLoop(buffer, len, 0, x)
    IN [buf |-> [f.buf EXCEPT ![len - 1] = Nul], rng |-> f.rng]

\* memory malloc has just handed out: no byte of it has been written
FreshMemory(len) == [k \in 0..(len - 1) |-> Uninit]

----------------------------------------------------------------------------
(* The heap under the generator *)

\* the heap starts at HeapLo + BaseStride * b for some b < MaxBase
HeapLo == 1
BaseStride == 21
MaxBase == 1

\* bytes of heap behind its base
HeapSize == 200

\* successful generateAlignedString calls on one generator
MaxAllocs == 2

HeapBases == {HeapLo + BaseStride * b : b \in 0..(MaxBase - 1)}

\* bytes a block of the requested size occupies (malloc(0) still returns a
\* distinct address)
BlockSpan(size) == IF size = 0 THEN 1 ELSE size

\* a heap that hands out room without regard to the blocks still live
HeapFits_IgnoreLive(raw, span) ==
    /\ raw >= heapBase
    /\ raw + span <= heapBase + HeapSize

\* the block of span bytes at raw lies in the heap and overlaps no live block
HeapFits(raw, span) ==
    /\ raw >= heapBase
    /\ raw + span <= heapBase + HeapSize
    /\ \A r \in DOMAIN heap :
          raw + span <= r \/ r + BlockSpan(heap[r]) <= raw

SetMin(S) == CHOOSE x \in S : \A y \in S : x <= y

\* addresses malloc(size) may return: the lowest place where the block fits,
\* or the lowest place behind every live block
MallocChoices(size) ==
    LET span == BlockSpan(size)
        starts == {heapBase} \cup {r + BlockSpan(heap[r]) : r \in DOMAIN heap}
        fits == {raw \in starts : HeapFits(raw, span)}
        top == {raw \in fits : \A r \in DOMAIN heap : raw > r}
    IN (IF fits = {} THEN {} ELSE {SetMin(fits)})
          \cup (IF top = {} THEN {} ELSE {SetMin(top)})

MapPut(m, k, v) == [x \in (DOMAIN m) \cup {k} |-> IF x = k THEN v ELSE m[x]]
MapErase(m, k) == [x \in (DOMAIN m) \ {k} |-> m[x]]

\* free(raw) as the heap sees it
HeapAfterFree(h, raw) == IF raw \in DOMAIN h THEN MapErase(h, raw) ELSE h
HeapFreeIsBad(h, raw) == raw # Null /\ raw \notin DOMAIN h

----------------------------------------------------------------------------
(* RandomStringGenerator: operations *)

\* alignments that are powers of two, and some that are not
GoodAlignments == {1, 2, 4, 8, 16, 32, 64}
BadAlignments == {0, 6}

\* (length, alignment) pairs generateAlignedString is called with; the last
\* one makes length + alignment - 1 wrap around in size_t
AllocRequests ==
    {<<16, al>> : al \in GoodAlignments \cup BadAlignments}
        \cup {<<1, 1>>, <<17, 64>>}
        \cup {<<0, 4>>, <<SizeMod - 1, 4>>}

\* seeds a generator is constructed with
Seeds == {42}

OpRecord(op, len, al, arg, ret, raw, err, malloced, found, stale) ==
    [op |-> op, len |-> len, align |-> al, arg |-> arg, ret |-> ret,
     raw |-> raw, err |-> err, malloced |-> malloced, found |-> found,
     stale |-> stale]

NoOp == OpRecord("none", 0, 0, Null, Null, Null, "none", FALSE, FALSE, FALSE)

\* a request for the buffer alone, without room to align it
TotalSize_NoSlack(len, alignment) == len

\* size_t totalSize = length + alignment - 1;
TotalSize(len, alignment) == USub(UAdd(len, alignment), 1)

\* an alignment failure that throws without giving the raw block back
AlignFailed_Leak(rawMemory, totalSize) ==
    /\ heap' = MapPut(heap, rawMemory, totalSize)
    /\ UNCHANGED <<heapErr, originalPointers, mem, rng, allocs>>

\* if (!alignedMemory) { free(rawMemory); throw std::runtime_error(...); }
\* the block malloc just handed out goes back to the heap
AlignFailed(rawMemory, totalSize) ==
    /\ heap' = HeapAfterFree(MapPut(heap, rawMemory, totalSize), rawMemory)
    /\ UNCHANGED <<heapErr, originalPointers, mem, rng, allocs>>

\* the generator object has not been destroyed
Alive == lastOp.op # "destroy"

\* void* RandomStringGenerator::generateAlignedString(length, alignment)
generateAlignedString(len, alignment) ==
    /\ Alive
    /\ UNCHANGED <<seed, heapBase>>
    /\ IF ~isPowerOfTwo(alignment) \/ len = 0
       THEN /\ lastOp' = OpRecord("gen", len, alignment, Null, Null, Null,
                                  "invalid_argument", FALSE, FALSE, FALSE)
            /\ UNCHANGED <<heap, heapErr, originalPointers, mem, rng, allocs>>
       ELSE LET totalSize == TotalSize(len, alignment)
            IN \/ \* malloc returns null
                  /\ lastOp' = OpRecord("gen", len, alignment, Null, Null, Null,
                                        "bad_alloc", TRUE, FALSE, FALSE)
                  /\ UNCHANGED <<heap, heapErr, originalPointers, mem, rng, allocs>>
               \/ /\ allocs < MaxAllocs
                  /\ \E rawMemory \in MallocChoices(totalSize) :
                       LET alignedMemory ==
                               align(alignment, len, rawMemory, totalSize)
                       IN IF alignedMemory = Null
                          THEN /\ lastOp' = OpRecord("gen", len, alignment, Null,
                                                     Null, rawMemory,
                                                     "runtime_error",
                                                     TRUE, FALSE, FALSE)
                               /\ AlignFailed(rawMemory, totalSize)
                          ELSE LET f == generateRandomUTF8(FreshMemory(len), len, rng)
                               IN /\ heap' = MapPut(heap, rawMemory, totalSize)
                                  /\ mem' = MapPut(mem, alignedMemory, f.buf)
                                  /\ rng' = f.rng
                                  /\ originalPointers' =
                                        MapPut(originalPointers, alignedMemory,
                                               rawMemory)
                                  /\ lastOp' = OpRecord("gen", len, alignment, Null,
                                                        alignedMemory, rawMemory,
                                                        "none", TRUE, FALSE, FALSE)
                                  /\ allocs' = allocs + 1
                                  /\ UNCHANGED heapErr
    /\ UNCHANGED <<cvars, fvars, vvars, bvars, gvars>>

\* a free that forgets to erase the record
EraseRecord_Keep(m, k) == m

\* originalPointers.erase(it)
EraseRecord(m, k) == MapErase(m, k)

\* a free that hands an unknown pointer to free() as if it were a raw block
FreeUnknown_AsRaw(alignedPtr) ==
    /\ heap' = HeapAfterFree(heap, alignedPtr)
    /\ heapErr' = (heapErr \/ HeapFreeIsBad(heap, alignedPtr))
    /\ UNCHANGED <<originalPointers, mem>>

\* freeAlignedString on a pointer that has no record: nothing happens
FreeUnknown(alignedPtr) ==
    UNCHANGED <<heap, heapErr, originalPointers, mem>>

\* void RandomStringGenerator::freeAlignedString(alignedPtr)
freeAlignedString(alignedPtr) ==
    /\ Alive
    /\ LET found == alignedPtr \in DOMAIN originalPointers
           stale == /\ ~found
                    /\ lastOp.op = "free" /\ lastOp.found /\ lastOp.arg = alignedPtr
       IN IF found
          THEN LET raw == originalPointers[alignedPtr]
               IN /\ heap' = HeapAfterFree(heap, raw)
                  /\ heapErr' = (heapErr \/ HeapFreeIsBad(heap, raw))
                  /\ originalPointers' = EraseRecord(originalPointers, alignedPtr)
                  /\ mem' = MapErase(mem, alignedPtr)
                  /\ lastOp' = OpRecord("free", 0, 0, alignedPtr, Null, raw, "none",
                                        FALSE, TRUE, FALSE)
          ELSE /\ lastOp' = OpRecord("free", 0, 0, alignedPtr, Null, Null, "none",
                                     FALSE, FALSE, stale)
               /\ FreeUnknown(alignedPtr)
    /\ UNCHANGED <<rng, seed, heapBase, allocs>>
    /\ UNCHANGED <<cvars, fvars, vvars, bvars, gvars>>

\* a destructor that releases nothing
ReleaseAll_None(h, m) == [heap |-> h, bad |-> FALSE]

\* for (auto& pair : originalPointers) free(pair.second);
\* the heap after the loop, and whether a free() got a block that is not live
RECURSIVE ReleaseAll(_, _)
ReleaseAll(h, m) ==
    IF DOMAIN m = {} THEN [heap |-> h, bad |-> FALSE]
    ELSE LET p == SetMin(DOMAIN m)
             r == ReleaseAll(HeapAfterFree(h, m[p]), MapErase(m, p))
         IN [heap |-> r.heap, bad |-> (r.bad \/ HeapFreeIsBad(h, m[p]))]

\* RandomStringGenerator::~RandomStringGenerator(): the raw block of every
\* remaining record is freed, then the members go away with the object
Destructor ==
    /\ Alive
    /\ LET r == ReleaseAll(heap, originalPointers)
       IN /\ heap' = r.heap
          /\ heapErr' = (heapErr \/ r.bad)
    /\ originalPointers' = EmptyMap
    /\ mem' = EmptyMap
    /\ lastOp' = OpRecord("destroy", 0, 0, Null, Null, Null, "none", FALSE,
                          originalPointers # EmptyMap, FALSE)
    /\ UNCHANGED <<rng, seed, heapBase, allocs>>
    /\ UNCHANGED <<cvars, fvars, vvars, bvars, gvars>>

\* pointers a caller hands to freeAlignedString: the live buffers, the raw
\* blocks behind them, the pointer of the previous free and a foreign address
ForeignPtr == HeapLo + BaseStride * MaxBase + HeapSize
FreeArgs ==
    (DOMAIN originalPointers) \cup (DOMAIN heap) \cup {lastOp.arg, ForeignPtr}

----------------------------------------------------------------------------
(* Two generators constructed with the same seed, filling buffers *)

Gens == {"A", "B"}

\* seeds the two generators are constructed with
FillSeeds == {42, 0, 1, 2, 3, 5, 8, 13}

\* longest buffer requested, and calls made on the two generators together
MaxFillLen == 12
MaxFillOps == 3

\* what the memory handed to the filler may hold before the call: malloc
\* does not clear it
PriorBytes == {1, -1}

\* bytes of the raw block behind the end of the buffer
GuardLen == 4

\* the memory at the buffer's address before the call: the len bytes of the
\* buffer and the GuardLen bytes behind them
PriorMemory(len) ==
    {[k \in 0..(len + GuardLen - 1) |-> b] : b \in PriorBytes}

FillEntry(op, prior, buf) == [op |-> op, prior |-> prior, buf |-> buf]

FillOps == Len(flog["A"]) + Len(flog["B"])

\* generator g is asked for a buffer of flen bytes: generateRandomUTF8 runs
\* on the memory the heap handed out, whatever it held
FillCall(g) ==
    /\ FillOps < MaxFillOps
    /\ \E prior \in PriorMemory(flen) :
          LET f == generateRandomUTF8(prior, flen, frng[g])
          IN /\ frng' = [frng EXCEPT ![g] = f.rng]
             /\ flog' = [flog EXCEPT
                            ![g] = Append(@, FillEntry("gen", prior, f.buf))]
    /\ UNCHANGED <<fseed, flen>>
    /\ UNCHANGED <<cvars, avars, vvars, bvars, gvars>>

\* void RandomStringGenerator::resetSeed() { rng.seed(seed); }
resetSeed(g) ==
    /\ FillOps < MaxFillOps
    /\ frng' = [frng EXCEPT ![g] = RngSeed(fseed)]
    /\ flog' = [flog EXCEPT
                   ![g] = Append(@, FillEntry("reset", EmptyMap, EmptyMap))]
    /\ UNCHANGED <<fseed, flen>>
    /\ UNCHANGED <<cvars, avars, vvars, bvars, gvars>>

FillIdle ==
    /\ fseed = 0
    /\ flen = 1
    /\ frng = [g \in Gens |-> 0]
    /\ flog = [g \in Gens |-> << >>]

----------------------------------------------------------------------------
(* validateResults *)

\* static_cast<int>(v) of a size_t: the low IntBits bits, two's complement
ToInt(v) ==
    LET m == v % Pow2(IntBits)
    IN IF m >= Pow2(IntBits - 1) THEN m - Pow2(IntBits) ELSE m

\* bytes copied into the excerpt: std::string(str + start, 20)
ExcerptLen == 20

\* size_t start = std::max(0, static_cast<int>(length/2 - 10));
ExcerptStart(len) ==
    LET v == ToInt(USub(len \div 2, 10))
    IN IF 0 < v THEN v ELSE 0

\* bool validateResults(serialCount, simdCount, str, length, char).  Copying
\* the excerpt reads str[start .. start+19]; a read past the buffer is
\* undefined: the call may go on with whatever it read, or fault.
validateResults ==
    /\ vpc = "idle"
    /\ IF vserial # vsimd
       THEN LET start == ExcerptStart(length)
                reads == start..(start + ExcerptLen - 1)
            IN /\ vdiag' = TRUE
               /\ vreads' = reads
               /\ \/ vpc' = "returned" /\ vret' = {FALSE}
                  \/ /\ \E k \in reads : k >= length
                     /\ vpc' = "fault" /\ vret' = None
       ELSE /\ vpc' = "returned"
            /\ vret' = {TRUE}
            /\ UNCHANGED <<vdiag, vreads>>
    /\ UNCHANGED <<vserial, vsimd>>
    /\ UNCHANGED <<cvars, avars, fvars, bvars, gvars>>

ValidateIdle ==
    /\ vserial = 0
    /\ vsimd = 0
    /\ vpc = "idle"
    /\ vret = None
    /\ vdiag = FALSE
    /\ vreads = {}

----------------------------------------------------------------------------
(* The benchmark drivers *)

Drivers ==
    {"runImprovedPerformanceAnalysis", "runPerformanceAnalysis",
     "analyzePerformance"}

\* measureExecutionTimes(operation, config.repetitions, 10)
WarmupRuns == 10

\* largest config.repetitions of a run
MaxReps == 3

\* untimed invocations the driver makes before the first timed one: only
\* runImprovedPerformanceAnalysis goes through measureExecutionTimes
WarmupOf(d) == IF d = "runImprovedPerformanceAnalysis" THEN WarmupRuns ELSE 0

\* counters a driver can be handed: runImprovedPerformanceAnalysis takes a
\* CharacterCounterBase&, the other two name their counter class
VectorChoices(d) ==
    IF d = "runImprovedPerformanceAnalysis" THEN BOOLEAN
    ELSE IF d = "runPerformanceAnalysis" THEN {TRUE} ELSE {FALSE}

\* the counting call of the driver, as it shows in the trace
CountEvent == IF bvector THEN "count_vector" ELSE "count_scalar"

\* the vector counter runs its kernel whatever the host is: on a host
\* without the instructions the processor rejects them and the process dies
CountTraps == bvector /\ ~hostVector

\* main(): the vector binary validates the configuration, then both call
\* their driver
BenchMain ==
    /\ bpc = "main"
    /\ btrace' = IF bdriver = "runPerformanceAnalysis"
                 THEN Append(btrace, "validateConfiguration")
                 ELSE btrace
    /\ bpc' = "generate"
    /\ UNCHANGED <<bdriver, bvector, hostVector, breps, bi, btimes>>
    /\ UNCHANGED <<cvars, avars, fvars, vvars, gvars>>

\* void* aligned = generator.generateAlignedString(stringLength, alignment)
BenchGenerate ==
    /\ bpc = "generate"
    /\ btrace' = Append(btrace, "generateAlignedString")
    /\ \/ bpc' = "error"
       \/ bpc' = IF WarmupOf(bdriver) > 0 THEN "warmup" ELSE "timed"
    /\ bi' = 0
    /\ UNCHANGED <<bdriver, bvector, hostVector, breps, btimes>>
    /\ UNCHANGED <<cvars, avars, fvars, vvars, gvars>>

\* for (int i = 0; i < warmup_runs; ++i) operation();
BenchWarmup ==
    /\ bpc = "warmup"
    /\ bi < WarmupOf(bdriver)
    /\ btrace' = Append(btrace, CountEvent)
    /\ IF CountTraps
       THEN bpc' = "sigill" /\ UNCHANGED bi
       ELSE IF bi + 1 < WarmupOf(bdriver)
            THEN bi' = bi + 1 /\ UNCHANGED bpc
            ELSE bi' = 0 /\ bpc' = "timed"
    /\ UNCHANGED <<bdriver, bvector, hostVector, breps, btimes>>
    /\ UNCHANGED <<cvars, avars, fvars, vvars, gvars>>

\* a repetition that allocates and releases the buffer around its call
RepetitionCalls_Realloc ==
    <<"generateAlignedString", CountEvent, "freeAlignedString">>

\* what one timed repetition calls between its two timestamps: the counting
\* call and nothing else
RepetitionCalls == <<CountEvent>>

\* for (rep = 0; rep < repetitions; ++rep) { count; times.push_back(...); }
BenchTimed ==
    /\ bpc = "timed"
    /\ bi < breps
    /\ btrace' = btrace \o RepetitionCalls
    /\ IF CountTraps
       THEN bpc' = "sigill" /\ UNCHANGED <<bi, btimes>>
       ELSE /\ btimes' = Append(btimes, Len(btrace'))
            /\ IF bi + 1 < breps
               THEN bi' = bi + 1 /\ UNCHANGED bpc
               ELSE /\ bi' = 0
                    /\ bpc' = IF bdriver = "runImprovedPerformanceAnalysis"
                              THEN "final" ELSE "report"
    /\ UNCHANGED <<bdriver, bvector, hostVector, breps>>
    /\ UNCHANGED <<cvars, avars, fvars, vvars, gvars>>

\* totalOccurrences = counter.countCharacterOccurrences(...) after the timing
BenchFinalCount ==
    /\ bpc = "final"
    /\ btrace' = Append(btrace, CountEvent)
    /\ bpc' = IF CountTraps THEN "sigill" ELSE "report"
    /\ UNCHANGED <<bdriver, bvector, hostVector, breps, bi, btimes>>
    /\ UNCHANGED <<cvars, avars, fvars, vvars, gvars>>

\* the statistics are computed and the timing results printed
BenchReport ==
    /\ bpc = "report"
    /\ btrace' = Append(btrace, "report")
    /\ bpc' = "free"
    /\ UNCHANGED <<bdriver, bvector, hostVector, breps, bi, btimes>>
    /\ UNCHANGED <<cvars, avars, fvars, vvars, gvars>>

\* generator.freeAlignedString(aligned)
BenchFree ==
    /\ bpc = "free"
    /\ btrace' = Append(btrace, "freeAlignedString")
    /\ bpc' = "done"
    /\ UNCHANGED <<bdriver, bvector, hostVector, breps, bi, btimes>>
    /\ UNCHANGED <<cvars, avars, fvars, vvars, gvars>>

BenchIdle ==
    /\ bdriver = "analyzePerformance"
    /\ bvector = FALSE
    /\ hostVector = TRUE
    /\ breps = 1
    /\ bpc = "done"
    /\ bi = 0
    /\ btimes = << >>
    /\ btrace = << >>

----------------------------------------------------------------------------
(* validateConfiguration and the main that calls it *)

\* if (config.stringLength < 16)
MinStringLength == 16

\* config.repetitions > 1000
MaxRepetitions == 1000

\* a range test without its upper limit
RepetitionsInRange_NoUpper(r) == ~(r < 1)

\* the negation of `config.repetitions < 1 || config.repetitions > 1000`
RepetitionsInRange(r) == ~(r < 1 \/ r > MaxRepetitions)

\* config.targetCharacter < 32 || config.targetCharacter > 126
TargetNotPrintable(c) == c < 32 \/ c > 126

\* void validateConfiguration(const TestConfiguration& config): the first
\* failing test throws std::invalid_argument, which main catches
validateConfiguration ==
    /\ mpc = "validate"
    /\ IF config.stringLength < MinStringLength
       THEN /\ merror' = "String length must be at least 16 bytes"
            /\ mpc' = "catch"
            /\ UNCHANGED mwarned
       ELSE IF ~isPowerOfTwo(config.alignment)
       THEN /\ merror' = "Alignment must be a power of 2"
            /\ mpc' = "catch"
            /\ UNCHANGED mwarned
       ELSE IF ~RepetitionsInRange(config.repetitions)
       THEN /\ merror' = "Repetitions must be between 1 and 1000"
            /\ mpc' = "catch"
            /\ UNCHANGED mwarned
       ELSE /\ mwarned' = TargetNotPrintable(config.targetCharacter)
            /\ mpc' = "run"
            /\ UNCHANGED merror
    /\ UNCHANGED <<config, mallocated>>
    /\ UNCHANGED <<cvars, avars, fvars, vvars, bvars>>

\* main: runPerformanceAnalysis(counter, config), which asks the generator
\* for the buffer of the run, then return 0
MainRun ==
    /\ mpc = "run"
    /\ mallocated' = TRUE
    /\ mpc' = "exit0"
    /\ UNCHANGED <<config, merror, mwarned>>
    /\ UNCHANGED <<cvars, avars, fvars, vvars, bvars>>

\* main: catch (const std::exception& e), print e.what(), return 1
MainCatch ==
    /\ mpc = "catch"
    /\ mpc' = "exit1"
    /\ UNCHANGED <<config, merror, mwarned, mallocated>>
    /\ UNCHANGED <<cvars, avars, fvars, vvars, bvars>>

ConfigIdle ==
    /\ config = [stringLength |-> MinStringLength, alignment |-> 1,
                 repetitions |-> 1, targetCharacter |-> CharA]
    /\ mpc = "validate"
    /\ merror = "none"
    /\ mwarned = FALSE
    /\ mallocated = FALSE

----------------------------------------------------------------------------
(* Specification of the generator: any sequence of calls on one generator *)

InitAlloc ==
    /\ seed \in Seeds
    /\ rng = RngSeed(seed)
    /\ heapBase \in HeapBases
    /\ heap = EmptyMap
    /\ heapErr = FALSE
    /\ originalPointers = EmptyMap
    /\ mem = EmptyMap
    /\ allocs = 0
    /\ lastOp = NoOp
    /\ length = 1
    /\ str = MakeBuffer(1, 0)
    /\ target = CharA
    /\ calls = 0
    /\ CountIdle
    /\ FillIdle
    /\ ValidateIdle
    /\ BenchIdle
    /\ ConfigIdle

NextAlloc ==
    \/ \E rq \in AllocRequests : generateAlignedString(rq[1], rq[2])
    \/ \E p \in FreeArgs : freeAlignedString(p)
    \/ Destructor

SpecAlloc == InitAlloc /\ [][NextAlloc]_vars

----------------------------------------------------------------------------
(* Specification of the counters: every buffer of the family, every target *)

AllocIdle ==
    /\ heapBase = HeapLo
    /\ allocs = 0
    /\ heap = EmptyMap
    /\ heapErr = FALSE
    /\ originalPointers = EmptyMap
    /\ mem = EmptyMap
    /\ rng = 0
    /\ seed = 0
    /\ lastOp = NoOp

InitCount ==
    /\ length \in 1..MaxLen
    /\ \E h \in HotIndices(length) : str = MakeBuffer(length, h)
    /\ target \in Targets
    /\ calls = 0
    /\ CountIdle
    /\ AllocIdle
    /\ FillIdle
    /\ ValidateIdle
    /\ BenchIdle
    /\ ConfigIdle

NextCount ==
    \/ SerialCountAll
    \/ SerialCountCharacter
    \/ KernelCall
    \/ SimdCountAllBegin
    \/ SimdCountAllNext
    \/ SimdCountAllReturn
    \/ BlockIter
    \/ BlockExit
    \/ RemIter
    \/ KernelReturn

SpecCount == InitCount /\ [][NextCount]_vars

----------------------------------------------------------------------------
(* Specification of the filler: two generators with one seed, any calls *)

InitFill ==
    /\ fseed \in FillSeeds
    /\ flen \in 1..MaxFillLen
    /\ frng = [g \in Gens |-> RngSeed(fseed)]
    /\ flog = [g \in Gens |-> << >>]
    /\ length = 1
    /\ str = MakeBuffer(1, 0)
    /\ target = CharA
    /\ calls = 0
    /\ CountIdle
    /\ AllocIdle
    /\ ValidateIdle
    /\ BenchIdle
    /\ ConfigIdle

NextFill ==
    \/ \E g \in Gens : FillCall(g)
    \/ \E g \in Gens : resetSeed(g)

SpecFill == InitFill /\ [][NextFill]_vars

----------------------------------------------------------------------------
(* Specification of validateResults: every pair of counts, every length *)

\* counts handed to validateResults
ValidateCounts == {0, 1, 7}

\* the shortest length whose length/2 - 10 no longer fits an int
IntWrapLen == 2 * (Pow2(IntBits - 1) + 10)

\* buffer lengths handed to validateResults
ValidateLengths == (1..MaxLen) \cup {IntWrapLen - 2, IntWrapLen}

InitValidate ==
    /\ vserial \in ValidateCounts
    /\ vsimd \in ValidateCounts
    /\ length \in ValidateLengths
    /\ str = MakeBuffer(length, 0)
    /\ vpc = "idle"
    /\ vret = None
    /\ vdiag = FALSE
    /\ vreads = {}
    /\ target = CharA
    /\ calls = 0
    /\ CountIdle
    /\ AllocIdle
    /\ FillIdle
    /\ BenchIdle
    /\ ConfigIdle

NextValidate == validateResults

SpecValidate == InitValidate /\ [][NextValidate]_vars

----------------------------------------------------------------------------
(* Specification of a benchmark run: every driver, counter, host *)

InitBench ==
    /\ bdriver \in Drivers
    /\ bvector \in VectorChoices(bdriver)
    /\ hostVector \in BOOLEAN
    /\ breps \in 1..MaxReps
    /\ bpc = "main"
    /\ bi = 0
    /\ btimes = << >>
    /\ btrace = << >>
    /\ length = 1
    /\ str = MakeBuffer(1, 0)
    /\ target = CharA
    /\ calls = 0
    /\ CountIdle
    /\ AllocIdle
    /\ FillIdle
    /\ ValidateIdle
    /\ ConfigIdle

NextBench ==
    \/ BenchMain
    \/ BenchGenerate
    \/ BenchWarmup
    \/ BenchTimed
    \/ BenchFinalCount
    \/ BenchReport
    \/ BenchFree

SpecBench == InitBench /\ [][NextBench]_vars

----------------------------------------------------------------------------
(* Specification of main: every configuration of the family *)

\* config.stringLength (size_t)
ConfigLengths ==
    {0, 1, MinStringLength - 1, MinStringLength, MinStringLength + 1, SizeMod - 1}

\* config.alignment (size_t)
ConfigAlignments == {0, 1, 2, 3, 6, 16, 24, 32, SizeMod - 1}

\* config.repetitions (int)
ConfigRepetitions ==
    {-1, 0, 1, 2, MaxRepetitions - 1, MaxRepetitions, MaxRepetitions + 1}

\* config.targetCharacter (char)
ConfigTargets == {-128, -1, 0, 31, 32, CharA, 126, 127}

InitConfig ==
    /\ config \in [stringLength : ConfigLengths, alignment : ConfigAlignments,
                   repetitions : ConfigRepetitions, targetCharacter : ConfigTargets]
    /\ mpc = "validate"
    /\ merror = "none"
    /\ mwarned = FALSE
    /\ mallocated = FALSE
    /\ length = 1
    /\ str = MakeBuffer(1, 0)
    /\ target = CharA
    /\ calls = 0
    /\ CountIdle
    /\ AllocIdle
    /\ FillIdle
    /\ ValidateIdle
    /\ BenchIdle

NextConfig ==
    \/ validateConfiguration
    \/ MainRun
    \/ MainCatch

SpecConfig == InitConfig /\ [][NextConfig]_vars

----------------------------------------------------------------------------
(* Properties of the counters *)

\* number of indices k in [0, n) with s[k] = c
ScalarTargetCount(s, n, c) == Cardinality({k \in 0..(n - 1) : s[k] = c})

\* a kernel call has run to its return statement
KernelReturned == caller # "none" /\ pc \in {"idle", "all"}

\* a kernel call is in flight or has ended
KernelEntered == caller # "none"

RECURSIVE SumValues(_, _)
SumValues(m, keys) ==
    IF keys = {} THEN 0
    ELSE LET c == CHOOSE x \in keys : TRUE
         IN m[c] + SumValues(m, keys \ {c})

\* C1: for every buffer, every length >= 1 and every target byte, a direct
\* call of the vector kernel on the content region runs to its return and
\* returns the number of content indices holding the target byte.
C1_KernelEqualsScalar ==
    /\ (caller = "direct" => pc # "fault")
    /\ \A r \in simdCount : r = ScalarTargetCount(str, length - 1, target)

\* C2: with content length 15 the kernel runs zero iterations of its block
\* loop and counts all 15 content bytes in the remainder loop.
C2_Content15NoBlock ==
    (KernelEntered /\ length - 1 = 15) =>
        /\ blocks = 0
        /\ (KernelReturned => rems = 15)

\* C3: for every content length n the kernel runs exactly n div 16 block
\* iterations at offsets 0, 16, 32, ... and n mod 16 remainder iterations,
\* examining every content index exactly once.
C3_BlocksAndRemainder ==
    KernelEntered =>
        LET n == length - 1
        IN /\ blocks <= n \div VecWidth
           /\ rems <= n % VecWidth
           /\ loads \subseteq {VecWidth * b : b \in 0..(n \div VecWidth)}
           /\ \A k \in DOMAIN seen : seen[k] <= 1
           /\ KernelReturned =>
                 /\ blocks = n \div VecWidth
                 /\ rems = n % VecWidth
                 /\ \A k \in DOMAIN seen : seen[k] = 1

\* C4: every 16-byte load issued at offset o satisfies o + 16 <= n, so no
\* load touches an index at or beyond the content length n.
C4_LoadsInBounds ==
    \A o \in loads : o + VecWidth <= length - 1

\* C5: the table returned by the vector countAllCharacters equals the table
\* returned by the scalar countAllCharacters (same keys, same values), and
\* the vector countAllCharacters does return one.
C5_TablesEqual ==
    /\ (caller = "all" => pc # "fault")
    /\ \A t \in simdCounts : t = SerialCountAllCharacters(str, length)

\* C6: the values of the table returned by countAllCharacters, scalar and
\* vector, sum to length - 1, and both calls return.
C6_TableSumsToContent ==
    /\ \A t \in serialCounts : SumValues(t, DOMAIN t) = length - 1
    /\ \A t \in simdCounts : SumValues(t, DOMAIN t) = length - 1
    /\ (pc = "fault" => caller # "all")

----------------------------------------------------------------------------
(* Properties of the generator *)

\* the powers of two representable in size_t
PowersOfTwo == {Pow2(k) : k \in 0..(SizeBits - 1)}

\* the last call was a generateAlignedString that returned a buffer
GenSucceeded == lastOp.op = "gen" /\ lastOp.err = "none"

\* C7: for every length L >= 16, every alignment A in {1,2,4,8,16,32,64} and
\* every raw address, a successful generateAlignedString(L, A) returns a
\* pointer P with P mod A = 0.
C7_ReturnedPointerAligned ==
    (GenSucceeded /\ lastOp.len >= 16 /\ lastOp.align \in GoodAlignments) =>
        /\ lastOp.ret # Null
        /\ lastOp.ret % lastOp.align = 0

\* witness of C7: a buffer of alignment 64 carved out of a raw block that
\* does not itself start on a multiple of 64
C7_Witness ==
    /\ GenSucceeded /\ lastOp.len >= 16 /\ lastOp.align = 64
    /\ lastOp.raw % 64 # 0

\* C8: after any sequence of generateAlignedString / freeAlignedString calls
\* originalPointers holds exactly one (aligned -> raw) record per buffer
\* allocated and not yet freed, and no record for a freed or never allocated
\* buffer: the records are in one-to-one correspondence with the live heap
\* blocks, each aligned pointer lying inside its raw block.
C8_OneRecordPerLiveBuffer ==
    /\ \A p, q \in DOMAIN originalPointers :
          p # q => originalPointers[p] # originalPointers[q]
    /\ {originalPointers[p] : p \in DOMAIN originalPointers} = DOMAIN heap
    /\ \A p \in DOMAIN originalPointers :
          LET raw == originalPointers[p]
          IN raw \in DOMAIN heap => (raw <= p /\ p < raw + BlockSpan(heap[raw]))
    /\ GenSucceeded =>
          /\ lastOp.ret \in DOMAIN originalPointers
          /\ originalPointers[lastOp.ret] = lastOp.raw
    /\ (lastOp.op = "free" /\ lastOp.found) =>
          lastOp.arg \notin DOMAIN originalPointers

\* witness of C8: two buffers were allocated, one of them has been freed
C8_Witness ==
    /\ allocs = 2
    /\ Cardinality(DOMAIN originalPointers) = 1
    /\ lastOp.op = "free" /\ lastOp.found

\* C9: freeAlignedString on a pointer without a record (never allocated by
\* this generator, or already freed) releases no heap block, leaves
\* originalPointers unchanged and raises no error.
C9_FreeUnknownIsNoOp ==
    [][(lastOp'.op = "free" /\ lastOp'.arg \notin DOMAIN originalPointers) =>
          /\ heap' = heap
          /\ heapErr' = heapErr
          /\ originalPointers' = originalPointers
          /\ mem' = mem
          /\ lastOp'.err = "none"]_vars

\* witness of C9: the same pointer was freed twice in a row while another
\* buffer is live
C9_Witness ==
    /\ lastOp.op = "free" /\ ~lastOp.found /\ lastOp.stale
    /\ heap # EmptyMap

\* C10: generateAlignedString with an alignment that is not a power of two
\* (0 included) is rejected with an error before malloc is called; no block
\* is allocated and no record is created.
C10_BadAlignmentRejected ==
    [][(lastOp'.op = "gen" /\ lastOp'.align \notin PowersOfTwo) =>
          /\ lastOp'.err = "invalid_argument"
          /\ ~lastOp'.malloced
          /\ lastOp'.ret = Null
          /\ heap' = heap
          /\ originalPointers' = originalPointers]_vars

\* witness of C10: alignment 0 was rejected while a buffer is live
C10_Witness ==
    /\ lastOp.op = "gen" /\ lastOp.align = 0
    /\ lastOp.err = "invalid_argument"
    /\ heap # EmptyMap

\* C11: whenever generateAlignedString fails because the heap returned null
\* or because no aligned address with room for the buffer exists, the call
\* surfaces an error, returns no buffer, and leaves the allocator as it was:
\* no record is added and no raw block obtained during the call stays live.
C11_FailedGenLeavesNoTrace ==
    [][(lastOp'.op = "gen" /\ lastOp'.err \in {"bad_alloc", "runtime_error"})
          => /\ lastOp'.ret = Null
             /\ heap' = heap
             /\ originalPointers' = originalPointers
             /\ mem' = mem
             /\ heapErr' = heapErr]_vars

\* the alignment step failed on a block malloc had handed out, while another
\* buffer of the generator was live
C11_Witness ==
    /\ lastOp.op = "gen" /\ lastOp.err = "runtime_error"
    /\ lastOp.raw # Null
    /\ lastOp.raw \notin DOMAIN heap
    /\ originalPointers # EmptyMap

\* C15: after every successful generateAlignedString(L, A) with L >= 1 the
\* byte at index L - 1 of the returned buffer is the sentinel 0.
C15_SentinelAtEnd ==
    /\ GenSucceeded
          => /\ lastOp.ret \in DOMAIN mem
             /\ DOMAIN mem[lastOp.ret] = 0..(lastOp.len - 1)
             /\ mem[lastOp.ret][lastOp.len - 1] = Nul
    /\ \A p \in DOMAIN mem :
          mem[p][Cardinality(DOMAIN mem[p]) - 1] = Nul

\* a buffer was returned whose filler stopped early: the content byte just
\* before the sentinel was never written, the sentinel was
C15_Witness ==
    /\ GenSucceeded
    /\ lastOp.len > 1
    /\ mem[lastOp.ret][lastOp.len - 2] = Uninit
    /\ mem[lastOp.ret][lastOp.len - 1] = Nul

----------------------------------------------------------------------------
(* Properties of the filler *)

\* the content region of a buffer of flen bytes
FillContent == 0..(flen - 2)

\* generator g's n-th call produced a buffer
Generated(g, n) == n \in 1..Len(flog[g]) /\ flog[g][n].op = "gen"

\* content indices the filler left as it found them
Unwritten(e) == {k \in FillContent : e.buf[k] = e.prior[k]}

\* C12: two generators constructed with the same seed, each asked once for a
\* buffer of the same length, produce the same byte at every content index,
\* whatever the heap memory held before.
C12_SameSeedSameContent ==
    (Generated("A", 1) /\ Generated("B", 1))
        => \A k \in FillContent : flog["A"][1].buf[k] = flog["B"][1].buf[k]

\* C13: generating a buffer, calling resetSeed(), and generating a buffer of
\* the same length again yields the same content; resetSeed() puts the
\* engine back into the state it had right after construction.
C13_ResetReproduces ==
    \A g \in Gens :
        /\ (Len(flog[g]) >= 1 /\ flog[g][Len(flog[g])].op = "reset")
              => frng[g] = RngSeed(fseed)
        /\ (Generated(g, 1) /\ Generated(g, 3) /\ flog[g][2].op = "reset")
              => \A k \in FillContent : flog[g][1].buf[k] = flog[g][3].buf[k]

PrintableBytes == 32..126
LeadBytes == {ToChar(v) : v \in 194..244}
ContBytes == {ToChar(v) : v \in 128..191}

----------------------------------------------------------------------------
(* Properties of the counters: the sentinel, repeated calls *)

\* zero bytes in the content region [0, length - 1)
ContentZeros == ScalarTargetCount(str, length - 1, Nul)

\* every 16-byte load issued so far lies inside the buffer
LoadsInsideBuffer == \A o \in loads : o + VecWidth <= length

\* C16: the sentinel byte at index length - 1 is never counted, by either
\* counter in either mode: for the target byte 0 the single-target result is
\* the number of zero bytes in [0, length - 1), the running total of the
\* vector kernel never exceeds that number while it reads inside the
\* buffer, and the entry for 0 of every table excludes the sentinel.
C16_SentinelNeverCounted ==
    /\ target = Nul
          => /\ \A r \in serialCount : r = ContentZeros
             /\ \A r \in simdCount : r = ContentZeros
    /\ \A t \in serialCounts \cup simdCounts : MapGet(t, Nul) = ContentZeros
    /\ (KernelEntered /\ char_x = Nul /\ LoadsInsideBuffer)
          => total <= ContentZeros

\* C17: calling a counter twice in a row on the same unmodified buffer with
\* the same length and target returns the same result both times: a call
\* returns, it does not modify the buffer, and a result that replaces an
\* earlier result of the same counter and mode equals it.
C17_RepeatedCallSameResult ==
    [][/\ str' = str
       /\ length' = length
       /\ pc' # "fault"
       /\ (serialCount # None /\ serialCount' # None)
             => serialCount' = serialCount
       /\ (serialCounts # None /\ serialCounts' # None)
             => serialCounts' = serialCounts
       /\ (simdCount # None /\ simdCount' # None)
             => simdCount' = simdCount
       /\ (simdCounts # None /\ simdCounts' # None)
             => simdCounts' = simdCounts]_vars

----------------------------------------------------------------------------
(* Properties of validateResults *)

\* C18: validateResults returns true exactly when the two counts are equal;
\* on a mismatch it emits a diagnostic and returns false as an ordinary
\* value, without throwing or aborting, for every pair of counts and every
\* length.
C18_ValidateReturnsVerdict ==
    /\ vpc # "fault"
    /\ vpc = "returned"
          => /\ vret = {vserial = vsimd}
             /\ vdiag = (vserial # vsimd)

----------------------------------------------------------------------------
(* Properties of a benchmark run *)

\* positions of the trace at which event e stands
TracePositions(e) == {n \in 1..Len(btrace) : btrace[n] = e}

\* C19: in every benchmark run the equivalence check between the scalar and
\* the vector count is invoked at least once before any timing result is
\* reported.
C19_ValidatedBeforeReport ==
    \A n \in TracePositions("report") :
        \E m \in TracePositions("validateResults") : m < n

\* C20: on a host without the 128-bit vector instruction set the vector
\* counter never returns a count, and no vector counting call is made at
\* all: the program has failed at startup with a capability error, or
\* every call takes the scalar path.
C20_NoVectorCallWithoutISA ==
    ~hostVector
        => /\ TracePositions("count_vector") = {}
           /\ bvector => btimes = << >>

\* positions of the trace at which a counting call stands
CountPositions == TracePositions("count_vector") \cup TracePositions("count_scalar")

\* counting calls made before the first timed one
WarmupPositions == {m \in CountPositions : btimes # << >> /\ m < btimes[1]}

\* the timing results have been handed to the driver
TimingDone == bpc \in {"final", "report", "free", "done"}

\* C21: in every benchmark run at least one untimed warm-up invocation of
\* the counting call precedes the first timed sample and no warm-up
\* contributes a sample; the samples are those of the timed calls, in
\* execution order, and there are exactly `repetitions` of them.
C21_WarmupBeforeFirstSample ==
    /\ btimes # << >> => WarmupPositions # {}
    /\ \A n \in 1..Len(btimes) :
          /\ btimes[n] \in CountPositions
          /\ n > 1 => btimes[n - 1] < btimes[n]
    /\ TimingDone => Len(btimes) = breps

----------------------------------------------------------------------------
(* Properties of the frequency tables *)

\* the byte values that occur in the content region [0, length - 1)
ContentBytes == {str[k] : k \in 0..(length - 2)}

\* C22: the frequency table returned by countAllCharacters, scalar or
\* vector, has a key for byte b exactly when b occurs in the content region
\* [0, length - 1); every stored count is at least 1 and the number of keys
\* (the reported unique-character count) is the number of distinct content
\* bytes.
C22_TableKeysAreContentBytes ==
    \A t \in serialCounts \cup simdCounts :
        /\ DOMAIN t = ContentBytes
        /\ \A b \in DOMAIN t : t[b] >= 1
        /\ Cardinality(DOMAIN t) = Cardinality(ContentBytes)

\* both counters have returned a table for a buffer of more than one block
\* that holds three distinct byte values
C22_Witness ==
    /\ serialCounts # None
    /\ simdCounts # None
    /\ length > 2 * VecWidth
    /\ Cardinality(ContentBytes) = 3

----------------------------------------------------------------------------
(* Properties of the generator: placement of the buffers *)

\* C23: a successful generateAlignedString(L, A) returns the first
\* A-aligned address P >= raw, so P - raw < A, the raw block was requested
\* with L + A - 1 bytes, and the whole region [P, P + L) lies inside the raw
\* block [raw, raw + L + A - 1).
C23_FirstAlignedInsideRaw ==
    GenSucceeded =>
        LET P == lastOp.ret
            raw == lastOp.raw
            L == lastOp.len
            A == lastOp.align
        IN /\ raw <= P
           /\ P - raw < A
           /\ P % A = 0
           /\ raw \in DOMAIN heap
           /\ heap[raw] = L + A - 1
           /\ P + L <= raw + heap[raw]

\* a buffer whose aligned address uses the whole slack: it starts A - 1
\* bytes behind the raw address and ends where the raw block ends
C23_Witness ==
    /\ GenSucceeded
    /\ lastOp.align >= 16
    /\ lastOp.ret - lastOp.raw = lastOp.align - 1
    /\ lastOp.ret + lastOp.len = lastOp.raw + heap[lastOp.raw]

\* length of the live buffer at aligned address p
LiveLen(p) == Cardinality(DOMAIN mem[p])

\* C24: after any sequence of generateAlignedString and freeAlignedString
\* calls any two distinct live buffers come from distinct raw heap blocks
\* and their regions [P, P + L) do not overlap; a call that returns a
\* buffer returns neither a raw block nor an address that is still live.
C24_LiveBuffersDisjoint ==
    [][/\ \A p, q \in DOMAIN mem' :
             p # q => /\ originalPointers'[p] # originalPointers'[q]
                      /\ (p + LiveLen(p)' <= q \/ q + LiveLen(q)' <= p)
       /\ (lastOp'.op = "gen" /\ lastOp'.err = "none")
             => /\ lastOp'.raw \notin DOMAIN heap
                /\ lastOp'.ret \notin DOMAIN mem]_vars

\* two buffers are live at once
C24_Witness ==
    /\ Cardinality(DOMAIN mem) = 2
    /\ Cardinality(DOMAIN heap) = 2
    /\ GenSucceeded

----------------------------------------------------------------------------
(* Properties of a benchmark run: the buffer around the counting calls *)

GeneratePositions == TracePositions("generateAlignedString")
FreePositions == TracePositions("freeAlignedString")

\* C25: in a benchmark run the buffer is allocated exactly once, before the
\* first counting call (warm-up or timed), and freed once, after the last
\* one; no allocation or release of the buffer falls between two counting
\* calls, so none falls inside a timed repetition, and the buffer is live
\* during every counting call.
C25_BufferOutsideTimedRegion ==
    /\ Cardinality(GeneratePositions) <= 1
    /\ Cardinality(FreePositions) <= 1
    /\ \A c \in CountPositions :
          /\ \E g \in GeneratePositions : g < c
          /\ \A g \in GeneratePositions : g < c
          /\ \A f \in FreePositions : c < f
    /\ bpc = "done"
          => /\ Cardinality(GeneratePositions) = 1
             /\ FreePositions = {Len(btrace)}

\* a run with warm-up calls and several timed repetitions has released its
\* buffer
C25_Witness ==
    /\ bpc = "done"
    /\ Len(btimes) >= 2
    /\ WarmupPositions # {}
    /\ FreePositions # {}

----------------------------------------------------------------------------
(* Properties of the kernel: termination *)

\* C26: the vector kernel terminates for every content length n >= 0, also
\* for n < 16: it never leaves its loops by a fault, its block loop makes at
\* most floor(n / 16) iterations and its remainder loop at most n mod 16.
C26_KernelLoopsBounded ==
    /\ pc # "fault"
    /\ KernelEntered
          => /\ blocks <= ContentLen \div VecWidth
             /\ rems <= ContentLen % VecWidth

----------------------------------------------------------------------------
(* Properties of the filler: the indices it writes *)

\* indices at which the memory differs from what it held before the call
Written(e) == {k \in DOMAIN e.buf : e.buf[k] # e.prior[k]}

\* C27: for every length L >= 1 and every random sequence the set of
\* indices generateRandomUTF8(buffer, L) writes is exactly {0, ..., L-1}:
\* every content byte is written, also when a multi-byte sequence does not
\* fit at the end, and no index >= L is written.
C27_WritesExactlyBuffer ==
    \A g \in Gens : \A n \in 1..Len(flog[g]) :
        Generated(g, n) => Written(flog[g][n]) = 0..(flen - 1)

----------------------------------------------------------------------------
(* Properties of the generator: release of the raw blocks *)

\* C28: for any sequence of generateAlignedString / freeAlignedString calls
\* (failed allocations, repeated frees and frees of unknown pointers
\* included) followed by the destruction of the generator, every raw block
\* obtained from malloc is released with free exactly once: free is never
\* handed a block that is not live, and after the destructor no block is
\* left.
C28_EveryBlockFreedOnce ==
    /\ ~heapErr
    /\ lastOp.op = "destroy" => heap = EmptyMap

\* the generator was destroyed while it still held a buffer, after another
\* of its buffers had been freed by the caller
C28_Witness ==
    /\ lastOp.op = "destroy"
    /\ lastOp.found
    /\ allocs = 2
    /\ heap = EmptyMap

----------------------------------------------------------------------------
(* Properties of validateResults: the excerpt *)

\* C29: when validateResults reports a mismatch for a buffer of length 16 or
\* more, the excerpt it prints starts at max(0, length/2 - 10), taken through
\* the conversion of the size_t difference to int, and the 20 bytes it copies
\* all lie inside the buffer, at indices 0 .. length-1.
C29_ExcerptInsideBuffer ==
    (length >= VecWidth /\ vdiag)
        => /\ vreads = ExcerptStart(length)..(ExcerptStart(length) + ExcerptLen - 1)
           /\ vreads \subseteq 0..(length - 1)

----------------------------------------------------------------------------
(* Properties of validateConfiguration *)

\* the configurations the claim calls acceptable
Acceptable ==
    /\ config.stringLength >= 16
    /\ \E k \in 0..(SizeBits - 1) : config.alignment = Pow2(k)
    /\ config.repetitions \in 1..1000

\* C30: validateConfiguration accepts a configuration only if its
\* stringLength is at least 16, its alignment is a power of two and its
\* repetitions lie in 1..1000; every other configuration is rejected with
\* an error before any buffer is allocated; a target character outside
\* 32..126 gives a warning and nothing else, the configuration is still
\* accepted.
C30_ConfigurationValidated ==
    /\ mpc \in {"run", "exit0"} => Acceptable
    /\ mpc \in {"catch", "exit1"}
          => (~Acceptable /\ merror # "none" /\ ~mallocated /\ ~mwarned)
    /\ mallocated => Acceptable
    /\ (Acceptable /\ mpc # "validate")
          => /\ mpc \in {"run", "exit0"}
             /\ merror = "none"
             /\ mwarned = (config.targetCharacter \notin 32..126)

\* a configuration at the limits, with a target character that is not
\* printable, was accepted with the warning and the run got its buffer
C30_Witness ==
    /\ mpc = "exit0"
    /\ mallocated
    /\ mwarned
    /\ config.stringLength = 16
    /\ config.repetitions = 1000

====
